---------------------------- MODULE Spec2Model ----------------------------
(***************************************************************************)
(* Parallel directory scan of FreeFileSync (lib/parallel_scan.cpp):        *)
(* fillBuffer, the AsyncCallback coordinator between the worker threads    *)
(* and the foreground thread, and the DirCallback traversal callbacks.     *)
(*                                                                         *)
(* Strings (Zstring, std::wstring) are sequences of tokens; the token SEP  *)
(* is FILE_NAME_SEPARATOR.  An item name is one or two tokens (stem and    *)
(* ending); a relative path is names joined by SEP.                        *)
(***************************************************************************)
EXTENDS Integers, Sequences, FiniteSets, TLC

NoValue == "NoValue"           \* an empty Opt<> of a decision, no holder of a lock
None == << >>                  \* an empty Opt<> of a record
Some(x) == <<x>>               \* a set Opt<>
SEP == "/"                     \* FILE_NAME_SEPARATOR

\* ------------------------------------------------------------------ bounds
MaxRetry == 1        \* the observer answers RETRY only for retryNumber < MaxRetry
MaxStatus == 1       \* time-outs of wait_until (intermediate status updates)
MaxFolders == 2      \* number of base folders of one call
ChainDepth == 103    \* depth of the chain of nested folders of the "chain" base
DeepStart == 99      \* level of the callback the scan of the "chain" base starts from

\* --------------------------------------------------------- program constants
MaxLevel == 100      \* onFolder: "if (level_ > 100)"

\* ------------------------------------------------------------- string helpers
\* zen::endsWith
EndsWith(s, suffix) ==
    /\ Len(s) >= Len(suffix)
    /\ SubSeq(s, Len(s) - Len(suffix) + 1, Len(s)) = suffix

\* position of the last SEP in s, 0 if there is none
LastSepPos(s) ==
    LET ps == {i \in 1..Len(s) : s[i] = SEP}
    IN  IF ps = {} THEN 0 ELSE CHOOSE i \in ps : \A j \in ps : j <= i

\* zen::beforeLast(s, FILE_NAME_SEPARATOR, IF_MISSING_RETURN_NONE)
BeforeLast(s) == IF LastSepPos(s) = 0 THEN << >> ELSE SubSeq(s, 1, LastSepPos(s) - 1)

\* zen::afterLast(s, FILE_NAME_SEPARATOR, IF_MISSING_RETURN_ALL): the item name
AfterLast(s) == SubSeq(s, LastSepPos(s) + 1, Len(s))

IsPrefix(p, s) == Len(p) <= Len(s) /\ SubSeq(s, 1, Len(p)) = p

\* std::map::operator[] assignment
MapPut(m, k, v) == [x \in (DOMAIN m) \cup {k} |-> IF x = k THEN v ELSE m[x]]

EmptyMap == [x \in {} |-> NoValue]

Min(S) == CHOOSE x \in S : \A y \in S : x <= y

\* ------------------------------------------------------------------ filters
\* HardFilter (contract): a filter is [inclAll, incl, inclDir, excl]: excl are
\* item names that are excluded (with everything below them), incl are the
\* relative paths that are included when inclAll is FALSE, inclDir the
\* relative paths that are included as directories only.
FilterAll == [inclAll |-> TRUE, incl |-> {}, inclDir |-> {}, excl |-> {}]
FilterExclF == [inclAll |-> TRUE, incl |-> {}, inclDir |-> {}, excl |-> {<<"f">>}]
FilterExclD == [inclAll |-> TRUE, incl |-> {}, inclDir |-> {}, excl |-> {<<"d">>, <<"l">>}]
FilterInclDeep ==
    [inclAll |-> FALSE, incl |-> {<<"d", SEP, "f">>, <<"l">>}, inclDir |-> {}, excl |-> {}]
FilterInclUnder ==
    [inclAll |-> FALSE, incl |-> {<<"l", SEP, "f">>}, inclDir |-> {}, excl |-> {}]
FilterInclDir ==
    [inclAll |-> FALSE, incl |-> {<<"l", SEP, "f">>}, inclDir |-> {<<"l">>}, excl |-> {}]
Filters == {FilterAll, FilterExclF, FilterExclD, FilterInclDeep, FilterInclUnder, FilterInclDir}

Excluded(filter, relPath) == AfterLast(relPath) \in filter.excl

\* HardFilter::passFileFilter(relPath)
PassFileFilter(filter, relPath) ==
    /\ ~Excluded(filter, relPath)
    /\ filter.inclAll \/ relPath \in filter.incl

\* HardFilter::passDirFilter(relPath, &childItemMightMatch): the out parameter
\* keeps the caller's TRUE unless the directory does not pass
PassDirFilter(filter, relPath) ==
    IF Excluded(filter, relPath)
    THEN [pass |-> FALSE, childItemMightMatch |-> FALSE]
    ELSE IF filter.inclAll \/ relPath \in filter.incl \/ relPath \in filter.inclDir
    THEN [pass |-> TRUE, childItemMightMatch |-> TRUE]
    ELSE [pass |-> FALSE,
          childItemMightMatch |-> \E q \in filter.incl : IsPrefix(relPath \o <<SEP>>, q)]

\* ------------------------------------------------------- abstract file system
SYNC_DB_FILE_ENDING == <<".ffs_db">>
LOCK_FILE_ENDING == <<".ffs_lock">>

\* the order of AbstractPath root devices (std::map iteration order)
DeviceOrder == <<"dev1", "dev2">>
RootRank(root) == CHOOSE i \in 1..Len(DeviceOrder) : DeviceOrder[i] = root[1]

\* AFS::getPathComponents(folderPath): {rootPath, relPath}
GetPathComponents(folderPath) ==
    [rootPath |-> SubSeq(folderPath, 1, 1), relPath |-> SubSeq(folderPath, 3, Len(folderPath))]

\* AFS::appendRelPath + AFS::getDisplayPath
DisplayPath(folderPath, relPath) ==
    IF relPath = << >> THEN folderPath ELSE folderPath \o <<SEP>> \o relPath

\* one directory entry as the traversal primitive finds it: followed is
\* "symlinkInfo != nullptr", flaky says that probing the item may fail
Item(name, type, target, flaky) ==
    [name |-> name, type |-> type, target |-> target, followed |-> FALSE, flaky |-> flaky]

\* number of path components of a relative directory path
Depth(rel) == (Len(rel) + 1) \div 2

\* what each base folder holds: decided by the last name of its path
Listing(folderPath, rel) ==
    LET shape == AfterLast(folderPath)
    IN  CASE shape = <<"flat">> /\ rel = << >> ->
               << Item(<<"f">>, "file", "none", TRUE) >>
          [] shape = <<"pair">> /\ rel = << >> ->
               << Item(<<"d">>, "folder", "none", FALSE),
                  Item(<<"l">>, "symlink", "broken", FALSE) >>
          [] shape = <<"mix">> /\ rel = << >> ->
               << Item(<<"f">>, "file", "none", TRUE),
                  Item(<<"sync", ".ffs_db">>, "file", "none", FALSE),
                  Item(<<"d">>, "folder", "none", FALSE),
                  Item(<<"l">>, "symlink", "folder", FALSE) >>
          [] shape = <<"mix">> /\ rel = <<"d">> ->
               << Item(<<"f">>, "file", "none", FALSE),
                  Item(<<"l">>, "symlink", "file", FALSE) >>
          [] shape = <<"mix">> /\ rel = <<"l">> ->
               << Item(<<"f">>, "file", "none", FALSE) >>
          [] shape = <<"chain">> /\ Depth(rel) < ChainDepth ->
               << Item(<<"d">>, "folder", "none", FALSE) >>
          [] OTHER -> << >>

\* directories whose enumeration may fail
FlakyDir(folderPath, rel) ==
    LET shape == AfterLast(folderPath)
    IN  \/ shape = <<"mix">> /\ rel \in {<< >>, <<"d">>}
        \/ shape = <<"pair">> /\ rel = <<"d">>

\* ------------------------------------------------------------------- inputs
DirectoryKey(folderPath, filter, handleSymlinks) ==
    [folderPath |-> folderPath, filter |-> filter, handleSymlinks |-> handleSymlinks]

KeyA == DirectoryKey(<<"dev1", SEP, "flat">>, FilterAll, "DIRECT")
KeyB == DirectoryKey(<<"dev1", SEP, "pair">>, FilterAll, "FOLLOW")
KeyC == DirectoryKey(<<"dev2", SEP, "flat">>, FilterExclF, "EXCLUDE")
KeyStale == DirectoryKey(<<"dev2", SEP, "old">>, FilterAll, "EXCLUDE")
CoordKeys == {KeyA, KeyB, KeyC}

SymLinkHandling == {"EXCLUDE", "DIRECT", "FOLLOW"}
TravKeys == {DirectoryKey(<<"dev1", SEP, "mix">>, f, h) : f \in Filters, h \in SymLinkHandling}
KeyChain == DirectoryKey(<<"dev1", SEP, "chain">>, FilterAll, "EXCLUDE")

\* DirectoryValue: the folder tree is the map from the relative path of every
\* node to its record; the two maps of failed reads
EmptyDirectoryValue ==
    [folderCont |-> EmptyMap, failedFolderReads |-> EmptyMap, failedItemReads |-> EmptyMap]

StaleDirectoryValue ==
    [folderCont |-> (<<"old">> :> [type |-> "file", followed |-> FALSE]),
     failedFolderReads |-> EmptyMap,
     failedItemReads |-> (<<"gone">> :> [text |-> "stale", path |-> <<"gone">>])]

\* -------------------------------------------------------------------- state
VARIABLES
    foldersToRead,      \* in:  std::set<DirectoryKey>
    deviceParallelOps,  \* in:  std::map<AbstractPath, size_t>
    buf,                \* out: std::map<DirectoryKey, DirectoryValue>
    perDeviceFolders,   \* std::map<AbstractPath, std::set<DirectoryKey>>
    worker,             \* FixedList<InterruptibleThread>: [rootPath, workload, parallelOps]
    mainpc,             \* position of the foreground thread in fillBuffer
    errorRequest,       \* AsyncCallback::errorRequest_
    errorResponse,      \* AsyncCallback::errorResponse_
    threadsToFinish,    \* AsyncCallback::threadsToFinish_
    lockRequest,        \* holder of AsyncCallback::lockRequest_ across steps
    currentFile,        \* AsyncCallback::currentFile_
    activeThreadIdxs,   \* AsyncCallback::activeThreadIdxs_
    notifyingThreadIdx, \* AsyncCallback::notifyingThreadIdx_
    itemsScanned,       \* AsyncCallback::itemsScanned_
    wpc,                \* position of every worker thread
    interrupted,        \* InterruptibleThread::interrupt() was called
    todo,               \* per worker: callbacks of the directories still to enumerate
    cur,                \* per worker: the directory being enumerated
    ctx,                \* per worker: the error being reported through reportError
    statusCalls,        \* observer: number of reportStatus calls received
    lastStatus,         \* observer: the last status received
    lastErr,            \* observer: the last error received and the decision given
    inFlight,           \* callers of reportError that installed a request and did not clear it yet
    annotated,          \* observer: some status received named a thread count
    handlerCalls        \* observer: error handler calls made for the request now installed

inputVars == <<foldersToRead, deviceParallelOps>>
mainVars == <<buf, perDeviceFolders, worker, mainpc>>
requestVars == <<errorRequest, errorResponse, threadsToFinish, lockRequest>>
statusVars == <<currentFile, activeThreadIdxs, notifyingThreadIdx, itemsScanned>>
workerVars == <<wpc, interrupted, todo, cur, ctx>>
observerVars == <<statusCalls, lastStatus, lastErr, inFlight, annotated,
                  handlerCalls>>
vars == <<inputVars, mainVars, requestVars, statusVars, workerVars, observerVars>>

WorkerIds == 0..(Len(DeviceOrder) - 1)

\* the state of the coordinator, the workers and the observer at the call of fillBuffer
InitCall ==
    /\ perDeviceFolders = EmptyMap
    /\ worker = << >>
    /\ mainpc = "start"
    /\ errorRequest = None
    /\ errorResponse = NoValue
    /\ threadsToFinish = 0
    /\ lockRequest = NoValue
    /\ currentFile = << >>
    /\ activeThreadIdxs = EmptyMap
    /\ notifyingThreadIdx = 0
    /\ itemsScanned = 0
    /\ wpc = [w \in WorkerIds |-> "none"]
    /\ interrupted = [w \in WorkerIds |-> FALSE]
    /\ todo = [w \in WorkerIds |-> << >>]
    /\ cur = [w \in WorkerIds |-> None]
    /\ ctx = [w \in WorkerIds |-> None]
    /\ statusCalls = 0
    /\ lastStatus = None
    /\ lastErr = None
    /\ inFlight = {}
    /\ annotated = FALSE
    /\ handlerCalls = 0

StaleBuf == (KeyA :> StaleDirectoryValue) @@ (KeyStale :> StaleDirectoryValue)

Init ==
    /\ foldersToRead \in {S \in SUBSET CoordKeys : Cardinality(S) <= MaxFolders}
    /\ deviceParallelOps \in {EmptyMap, (<<"dev1">> :> 2) @@ (<<"dev2">> :> 0)}
    /\ buf \in {EmptyMap, StaleBuf}
    /\ InitCall

\* ------------------------------------------------------ fillBuffer (foreground)
\* fault: the caller's buffer is kept as it was
Cleared_Kept(b) == b

\* buf.clear()
Cleared(b) == EmptyMap

\* fault: each bucket is assigned its key instead of having it inserted
PerDeviceFolders_Assign(folders) ==
    [r \in {GetPathComponents(k.folderPath).rootPath : k \in folders} |->
        {CHOOSE k \in folders : GetPathComponents(k.folderPath).rootPath = r}]

\* "perDeviceFolders[rootPath].insert(key)" for every key of foldersToRead
PerDeviceFolders(folders) ==
    [r \in {GetPathComponents(k.folderPath).rootPath : k \in folders} |->
        {k \in folders : GetPathComponents(k.folderPath).rootPath = r}]

\* fault: the channel is set up for a single worker
ThreadsToFinishAtStart_One(perDevice) == 1

\* "AsyncCallback acb(perDeviceFolders.size() /*threadsToFinish*/, cbInterval)"
ThreadsToFinishAtStart(perDevice) == Cardinality(DOMAIN perDevice)

\* fillBuffer up to the construction of the AsyncCallback
FillBufferStart ==
    /\ mainpc = "start"
    /\ buf' = Cleared(buf)
    /\ perDeviceFolders' = PerDeviceFolders(foldersToRead)
    /\ threadsToFinish' = ThreadsToFinishAtStart(perDeviceFolders')
    /\ mainpc' = IF DOMAIN perDeviceFolders' = {} THEN "waiting" ELSE "spawn"
    /\ UNCHANGED <<inputVars, worker, errorRequest, errorResponse, lockRequest,
                   statusVars, workerVars, observerVars>>

\* the roots of perDeviceFolders in iteration order
RootsInOrder(roots) ==
    [i \in 1..Cardinality(roots) |->
        CHOOSE r \in roots : Cardinality({q \in roots : RootRank(q) < RootRank(r)}) = i - 1]

\* fault: the configured value is taken as it is, 0 when there is none
ParallelOps_Raw(rootPath) ==
    IF rootPath \in DOMAIN deviceParallelOps THEN deviceParallelOps[rootPath] ELSE 0

\* std::max<size_t>(itParOps != end ? itParOps->second : 1, 1)
ParallelOps(rootPath) ==
    LET n == IF rootPath \in DOMAIN deviceParallelOps THEN deviceParallelOps[rootPath] ELSE 1
    IN  IF n >= 1 THEN n ELSE 1

\* fault: the map is rebuilt for the bucket instead of being added to
BufWithKeys_Rebuilt(b, keys) == [k \in keys |-> EmptyDirectoryValue]

\* buf[key]: inserts a default DirectoryValue unless the key is there
BufWithKeys(b, keys) ==
    [k \in (DOMAIN b) \cup keys |-> IF k \in DOMAIN b THEN b[k] ELSE EmptyDirectoryValue]

\* one iteration of the "init worker threads" loop
SpawnWorker ==
    /\ mainpc = "spawn"
    /\ LET rootPath == RootsInOrder(DOMAIN perDeviceFolders)[Len(worker) + 1]
           threadIdx == Len(worker)
           workload == perDeviceFolders[rootPath]
       IN  /\ buf' = BufWithKeys(buf, workload)
           /\ worker' = Append(worker, [rootPath |-> rootPath, workload |-> workload,
                                        parallelOps |-> ParallelOps(rootPath)])
           /\ wpc' = [wpc EXCEPT ![threadIdx] = "spawned"]
           /\ mainpc' = IF Len(worker') = Cardinality(DOMAIN perDeviceFolders)
                        THEN "waiting" ELSE "spawn"
    /\ UNCHANGED <<inputVars, perDeviceFolders, requestVars, statusVars,
                   interrupted, todo, cur, ctx, observerVars>>

\* AsyncCallback::getCurrentStatus
GetCurrentStatus ==
    LET Sum[S \in SUBSET DOMAIN activeThreadIdxs] ==
            IF S = {} THEN 0
            ELSE LET x == CHOOSE y \in S : TRUE IN activeThreadIdxs[x] + Sum[S \ {x}]
        parallelOpsTotal == Sum[DOMAIN activeThreadIdxs]
    IN  [threads |-> IF parallelOpsTotal >= 2 THEN parallelOpsTotal ELSE 0,
         filePath |-> currentFile]

\* fault: the wait does not end for a new request
WaitPred_NoRequest == threadsToFinish = 0

\* fault: the wait does not end when all workers are finished
WaitPred_NoDone == errorRequest # None /\ errorResponse = NoValue

\* the predicate of conditionNewRequest.wait_until in waitUntilDone
WaitPred ==
    \/ errorRequest # None /\ errorResponse = NoValue
    \/ threadsToFinish = 0

\* waitUntilDone: wait_until times out with the condition not met
WaitTimeout ==
    /\ mainpc = "waiting"
    /\ lockRequest = NoValue
    /\ ~WaitPred
    /\ statusCalls < MaxStatus
    /\ mainpc' = "status"
    /\ UNCHANGED <<inputVars, buf, perDeviceFolders, worker, requestVars, statusVars,
                   workerVars, observerVars>>

\* waitUntilDone: callback.reportStatus outside of the mutex scope; it may throw
ReportStatus ==
    /\ mainpc = "status"
    /\ statusCalls' = statusCalls + 1
    /\ lastStatus' = Some([text |-> GetCurrentStatus, itemsScanned |-> itemsScanned])
    /\ annotated' = (annotated \/ GetCurrentStatus.threads >= 2)
    /\ \E outcome \in {"ok", "throw"} :
          mainpc' = IF outcome = "ok" THEN "waiting" ELSE "failing"
    /\ UNCHANGED <<inputVars, buf, perDeviceFolders, worker, requestVars, statusVars,
                   workerVars, lastErr, inFlight, handlerCalls>>

\* waitUntilDone: an unanswered request is seen; the observer's error handler
\* is entered with lockRequest_ held
EnterErrorHandler ==
    /\ mainpc = "waiting"
    /\ lockRequest = NoValue
    /\ WaitPred
    /\ errorRequest # None /\ errorResponse = NoValue
    /\ lockRequest' = "main"
    /\ mainpc' = "inHandler"
    /\ lastErr' = Some([msg |-> errorRequest[1].msg,
                        retryNumber |-> errorRequest[1].retryNumber, decision |-> NoValue])
    /\ handlerCalls' = handlerCalls + 1
    /\ UNCHANGED <<inputVars, buf, perDeviceFolders, worker, errorRequest, errorResponse,
                   threadsToFinish, statusVars, workerVars, statusCalls, lastStatus, inFlight,
                   annotated>>

\* the decisions the observer may give for a request
Decisions(request) ==
    {"CONTINUE"} \cup (IF request.retryNumber < MaxRetry THEN {"RETRY"} ELSE {})

\* fault: lockRequest_ is still held when the final status is rendered
DummyUnlock_Held == "main"

\* waitUntilDone: "dummy.unlock()" before the final callback.reportStatus
DummyUnlock == NoValue

\* waitUntilDone: callback.reportError returns; the decision is stored
ErrorHandlerReturn ==
    /\ mainpc = "inHandler"
    /\ \E decision \in Decisions(errorRequest[1]) :
          /\ errorResponse' = decision
          /\ lastErr' = [lastErr EXCEPT ![1].decision = decision]
    /\ lockRequest' = IF threadsToFinish = 0 THEN DummyUnlock ELSE NoValue
    /\ mainpc' = IF threadsToFinish = 0 THEN "final" ELSE "waiting"
    /\ UNCHANGED <<inputVars, buf, perDeviceFolders, worker, errorRequest, threadsToFinish,
                   statusVars, workerVars, statusCalls, lastStatus, inFlight,
                   annotated, handlerCalls>>

\* waitUntilDone: callback.reportError throws
ErrorHandlerThrows ==
    /\ mainpc = "inHandler"
    /\ lockRequest' = NoValue
    /\ mainpc' = "failing"
    /\ UNCHANGED <<inputVars, buf, perDeviceFolders, worker, errorRequest, errorResponse,
                   threadsToFinish, statusVars, workerVars, observerVars>>

\* waitUntilDone: threadsToFinish_ == 0 is seen with no request to answer
WaitDone ==
    /\ mainpc = "waiting"
    /\ lockRequest = NoValue
    /\ WaitPred
    /\ ~(errorRequest # None /\ errorResponse = NoValue)
    /\ threadsToFinish = 0
    /\ lockRequest' = DummyUnlock
    /\ mainpc' = "final"
    /\ UNCHANGED <<inputVars, buf, perDeviceFolders, worker, errorRequest, errorResponse,
                   threadsToFinish, statusVars, workerVars, observerVars>>

\* waitUntilDone: "one last call for accurate stat-reporting", then return
FinalStatus ==
    /\ mainpc = "final"
    /\ statusCalls' = statusCalls + 1
    /\ lastStatus' = Some([text |-> GetCurrentStatus, itemsScanned |-> itemsScanned])
    /\ annotated' = (annotated \/ GetCurrentStatus.threads >= 2)
    /\ \E outcome \in {"ok", "throw"} :
          mainpc' = IF outcome = "ok" THEN "joinOk" ELSE "failing"
    /\ UNCHANGED <<inputVars, buf, perDeviceFolders, worker, requestVars, statusVars,
                   workerVars, lastErr, inFlight, handlerCalls>>

\* fault: the workers are joined without being interrupted
InterruptAll_None == interrupted

\* "for (InterruptibleThread& wt : worker) wt.interrupt()"
InterruptAll == [w \in WorkerIds |-> interrupted[w] \/ w < Len(worker)]

\* ZEN_ON_SCOPE_FAIL: interrupt all workers first
ScopeFail ==
    /\ mainpc = "failing"
    /\ interrupted' = InterruptAll
    /\ mainpc' = "joinFail"
    /\ UNCHANGED <<inputVars, buf, perDeviceFolders, worker, requestVars, statusVars,
                   wpc, todo, cur, ctx, observerVars>>

\* ZEN_ON_SCOPE_EXIT: join all workers; fillBuffer returns or rethrows
ScopeExit ==
    /\ mainpc \in {"joinOk", "joinFail"}
    /\ \A w \in WorkerIds : w < Len(worker) => wpc[w] = "ended"
    /\ mainpc' = IF mainpc = "joinOk" THEN "returned" ELSE "thrown"
    /\ UNCHANGED <<inputVars, buf, perDeviceFolders, worker, requestVars, statusVars,
                   workerVars, observerVars>>

\* ------------------------------------------------------- AsyncCallback (worker)
\* AsyncCallback::mayReportCurrentFile; elapsed is
\* "numeric::dist(now, lastReportTime) > cbInterval_"
MayReportCurrentFile(threadIdx, elapsed) ==
    IF threadIdx # notifyingThreadIdx THEN FALSE ELSE elapsed

\* "if (acb.mayReportCurrentFile(...)) acb.reportCurrentFile(path)": the new currentFile_
StatusUpdate(threadIdx, elapsed, path) ==
    IF MayReportCurrentFile(threadIdx, elapsed) THEN path ELSE currentFile

\* fault: reportCurrentFile locks the mutex of the request channel
CanLockCurrentStatus_Request == lockRequest = NoValue

\* "std::lock_guard<std::mutex> dummy(lockCurrentStatus_)" can be taken:
\* lockCurrentStatus_ is held inside single steps only
CanLockCurrentStatus == TRUE

\* "if (acb.mayReportCurrentFile(...)) acb.reportCurrentFile(path)"
ReportCurrentFile(threadIdx, elapsed, path) ==
    /\ MayReportCurrentFile(threadIdx, elapsed) => CanLockCurrentStatus
    /\ currentFile' = StatusUpdate(threadIdx, elapsed, path)

\* AsyncCallback::notifyWorkBegin: the new notifyingThreadIdx_
NotifyingAfterBegin(active) == Min(DOMAIN active)

\* fault: the reporting worker is not chosen again when a worker ends
NotifyingAfterEnd_Stale(active) == notifyingThreadIdx

\* AsyncCallback::notifyWorkEnd: the new notifyingThreadIdx_
NotifyingAfterEnd(active) == IF DOMAIN active = {} THEN 0 ELSE Min(DOMAIN active)

\* worker body: acb.notifyWorkBegin(threadIdx, parallelOps)
NotifyWorkBegin(w) ==
    /\ wpc[w] = "spawned"
    /\ activeThreadIdxs' = MapPut(activeThreadIdxs, w, worker[w + 1].parallelOps)
    /\ notifyingThreadIdx' = NotifyingAfterBegin(activeThreadIdxs')
    /\ wpc' = [wpc EXCEPT ![w] = "init"]
    /\ UNCHANGED <<inputVars, mainVars, requestVars, currentFile, itemsScanned,
                   interrupted, todo, cur, ctx, observerVars>>

\* the callbacks of worker w that wait in todo or are being enumerated
BuiltKeys(w) == {todo[w][i].cb.key : i \in 1..Len(todo[w])}

\* worker body: std::make_shared<BaseDirCallback>(...) for the next key of the
\* workload (the order of the keys is fixed and not specified here)
BaseDirCallback(w) ==
    /\ wpc[w] = "init"
    /\ LET key == CHOOSE k \in worker[w + 1].workload \ BuiltKeys(w) : TRUE
       IN /\ \E elapsed \in BOOLEAN :
                ReportCurrentFile(w, elapsed, DisplayPath(key.folderPath, << >>))
          /\ todo' = [todo EXCEPT ![w] =
                         Append(@, [cb |-> [key |-> key, pf |-> << >>, level |-> 0],
                                    retry |-> 0])]
          /\ wpc' = [wpc EXCEPT ![w] =
                        IF worker[w + 1].workload \ BuiltKeys(w) = {key} THEN "trav" ELSE "init"]
    /\ UNCHANGED <<inputVars, mainVars, requestVars, activeThreadIdxs, notifyingThreadIdx,
                   itemsScanned, interrupted, cur, ctx, observerVars>>

\* fault: the worker that ends stays in the set of active workers
ActiveAfterEnd_Kept(active, threadIdx) == active

\* AsyncCallback::notifyWorkEnd: "activeThreadIdxs_.erase(threadIdx)"
ActiveAfterEnd(active, threadIdx) == [x \in (DOMAIN active) \ {threadIdx} |-> active[x]]

\* the first half of AsyncCallback::notifyWorkEnd (under lockCurrentStatus_)
NotifyWorkEndStatus(w) ==
    /\ wpc[w] = "exit"
    /\ activeThreadIdxs' = ActiveAfterEnd(activeThreadIdxs, w)
    /\ notifyingThreadIdx' = NotifyingAfterEnd(activeThreadIdxs')
    /\ wpc' = [wpc EXCEPT ![w] = "exitRequest"]
    /\ UNCHANGED <<inputVars, mainVars, requestVars, currentFile, itemsScanned,
                   interrupted, todo, cur, ctx, observerVars>>

\* fault: the first worker that ends reports all workers finished
ThreadsAfterEnd_Zero(n) == 0

\* AsyncCallback::notifyWorkEnd: "--threadsToFinish_"
ThreadsAfterEnd(n) == n - 1

\* the second half of AsyncCallback::notifyWorkEnd (under lockRequest_)
NotifyWorkEndRequest(w) ==
    /\ wpc[w] = "exitRequest"
    /\ lockRequest = NoValue
    /\ threadsToFinish' = ThreadsAfterEnd(threadsToFinish)
    /\ wpc' = [wpc EXCEPT ![w] = "ended"]
    /\ UNCHANGED <<inputVars, mainVars, errorRequest, errorResponse, lockRequest, statusVars,
                   interrupted, todo, cur, ctx, observerVars>>

\* fault: a caller does not wait for the previous request to be cleared
ReadyForNewRequest_Early == errorResponse = NoValue

\* the predicate of the first interruptibleWait of AsyncCallback::reportError
ReadyForNewRequest == errorRequest = None /\ errorResponse = NoValue

\* AsyncCallback::reportError up to the second interruptibleWait
ReportErrorRequest(w) ==
    /\ wpc[w] = "err"
    /\ ~interrupted[w]
    /\ lockRequest = NoValue
    /\ ReadyForNewRequest
    /\ errorRequest' = Some([msg |-> ctx[w][1].msg, retryNumber |-> ctx[w][1].retry])
    /\ inFlight' = inFlight \cup {w}
    /\ handlerCalls' = 0
    /\ wpc' = [wpc EXCEPT ![w] = "waitResponse"]
    /\ UNCHANGED <<inputVars, mainVars, errorResponse, threadsToFinish, lockRequest,
                   statusVars, interrupted, todo, cur, ctx, statusCalls, lastStatus, lastErr,
                   annotated>>

\* interruptionPoint() / interruptibleWait() throw ThreadInterruption: the
\* traversal unwinds to the scope guard of the worker body
ThreadInterruption(w) ==
    /\ wpc[w] \in {"trav", "err", "waitResponse"}
    /\ interrupted[w]
    /\ wpc' = [wpc EXCEPT ![w] = "exit"]
    /\ UNCHANGED <<inputVars, mainVars, requestVars, statusVars, interrupted, todo, cur, ctx,
                   observerVars>>

\* ------------------------------------------------------------------ DirCallback
\* a DirCallback is [key, pf, level]: its TraverserConfig (the key and the
\* DirectoryValue buf[key]), parentRelPathPf_ and level_; output_ is the folder
\* node of buf[key].folderCont at the relative path BeforeLast(pf)
AddSubFile(dv, relPath, followed) ==
    [dv EXCEPT !.folderCont = MapPut(@, relPath, [type |-> "file", followed |-> followed])]

AddSubFolder(dv, relPath, followed) ==
    [dv EXCEPT !.folderCont = MapPut(@, relPath, [type |-> "folder", followed |-> followed])]

AddSubLink(dv, relPath) ==
    [dv EXCEPT !.folderCont = MapPut(@, relPath, [type |-> "symlink", followed |-> FALSE])]

\* DirCallback::onFile: the database and lock files are not listed
ReservedName(itemName) ==
    EndsWith(itemName, SYNC_DB_FILE_ENDING) \/ EndsWith(itemName, LOCK_FILE_ENDING)

\* fault: the file filter is not applied
OnFileAdds_NoFilter(cb, item) == ~ReservedName(item.name)

\* DirCallback::onFile: whether the file is added (and counted)
OnFileAdds(cb, item) ==
    /\ ~ReservedName(item.name)
    /\ PassFileFilter(cb.key.filter, cb.pf \o item.name)

\* DirCallback::onFolder: whether the sub-folder node is created
OnFolderAdds(cb, item) ==
    LET r == PassDirFilter(cb.key.filter, cb.pf \o item.name)
    IN  ~(~r.pass /\ ~r.childItemMightMatch)

\* fault: every sub-folder node created is counted
OnFolderCounts_All(cb, item) == TRUE

\* DirCallback::onFolder: whether the sub-folder is counted
OnFolderCounts(cb, item) == PassDirFilter(cb.key.filter, cb.pf \o item.name).pass

\* fault: the limit is applied one level too late
RecursionLimit_Late(cb) == cb.level > MaxLevel + 1

\* DirCallback::onFolder: "if (level_ > 100)"
RecursionLimit(cb) == cb.level > MaxLevel

\* DirCallback::onFolder: the callback returned for the sub-folder
ChildCallback(cb, item) ==
    [key |-> cb.key, pf |-> cb.pf \o item.name \o <<SEP>>, level |-> cb.level + 1]

\* fault: in FOLLOW mode only the file filter is asked
OnSymlinkResult_FileOnly(cb, item) ==
    LET linkRelPath == cb.pf \o item.name
    IN  [add |-> cb.key.handleSymlinks = "DIRECT" /\ PassFileFilter(cb.key.filter, linkRelPath),
         ret |-> IF cb.key.handleSymlinks = "FOLLOW" /\ PassFileFilter(cb.key.filter, linkRelPath)
                 THEN "LINK_FOLLOW" ELSE "LINK_SKIP"]

\* DirCallback::onSymlink: whether a link record is added, and the result
OnSymlinkResult(cb, item) ==
    LET linkRelPath == cb.pf \o item.name
        filter == cb.key.filter
    IN  CASE cb.key.handleSymlinks = "EXCLUDE" -> [add |-> FALSE, ret |-> "LINK_SKIP"]
          [] cb.key.handleSymlinks = "DIRECT" ->
               [add |-> PassFileFilter(filter, linkRelPath), ret |-> "LINK_SKIP"]
          [] cb.key.handleSymlinks = "FOLLOW" ->
               IF /\ ~PassFileFilter(filter, linkRelPath)
                  /\ ~PassDirFilter(filter, linkRelPath).pass
                  /\ ~PassDirFilter(filter, linkRelPath).childItemMightMatch
               THEN [add |-> FALSE, ret |-> "LINK_SKIP"]
               ELSE [add |-> FALSE, ret |-> "LINK_FOLLOW"]

\* fault: the failure is recorded before the decision is looked at
ReportDirError_Always(dv, cb, msg, rv) ==
    [dv EXCEPT !.failedFolderReads = MapPut(@, BeforeLast(cb.pf), msg)]

\* fault: the trailing separator is kept in the key
ReportDirError_KeyPf(dv, cb, msg, rv) ==
    IF rv = "CONTINUE"
    THEN [dv EXCEPT !.failedFolderReads = MapPut(@, cb.pf, msg)]
    ELSE dv

\* DirCallback::reportDirError after acb.reportError returned rv
ReportDirError(dv, cb, msg, rv) ==
    IF rv = "CONTINUE"
    THEN [dv EXCEPT !.failedFolderReads = MapPut(@, BeforeLast(cb.pf), msg)]
    ELSE dv

\* fault: the failure is recorded whatever the decision
ReportItemError_Always(dv, cb, msg, itemName, rv) ==
    [dv EXCEPT !.failedItemReads = MapPut(@, cb.pf \o itemName, msg)]

\* DirCallback::reportItemError after acb.reportError returned rv
ReportItemError(dv, cb, msg, itemName, rv) ==
    IF rv = "CONTINUE"
    THEN [dv EXCEPT !.failedItemReads = MapPut(@, cb.pf \o itemName, msg)]
    ELSE dv

\* error messages: the text and the display path it names
ErrorMsg(text, cb, relPath) ==
    [text |-> text, path |-> DisplayPath(cb.key.folderPath, relPath)]

\* the directory being enumerated once its first item is done
NextCur(c) ==
    IF Len(c[1].items) <= 1 THEN None ELSE [c EXCEPT ![1].items = Tail(@), ![1].retry = 0]

\* a callback of the current directory may be called for its next item
AtItem(w, types) ==
    /\ wpc[w] = "trav"
    /\ ~interrupted[w]
    /\ cur[w] # None
    /\ Head(cur[w][1].items).type \in types

\* DirCallback::onFile for the next item of the current directory
OnFile(w) ==
    /\ AtItem(w, {"file"})
    /\ LET cb == cur[w][1].cb
           item == Head(cur[w][1].items)
           fileRelPath == cb.pf \o item.name
       IN  /\ \E elapsed \in BOOLEAN :
                 IF ReservedName(item.name) THEN currentFile' = currentFile
                 ELSE ReportCurrentFile(w, elapsed,
                                        DisplayPath(cb.key.folderPath, fileRelPath))
           /\ buf' = IF OnFileAdds(cb, item)
                     THEN [buf EXCEPT ![cb.key] = AddSubFile(@, fileRelPath, item.followed)]
                     ELSE buf
           /\ itemsScanned' = IF OnFileAdds(cb, item) THEN itemsScanned + 1 ELSE itemsScanned
           /\ cur' = [cur EXCEPT ![w] = NextCur(@)]
    /\ UNCHANGED <<inputVars, perDeviceFolders, worker, mainpc, requestVars, activeThreadIdxs,
                   notifyingThreadIdx, wpc, interrupted, todo, ctx, observerVars>>

\* DirCallback::onFolder for the next item of the current directory
OnFolder(w) ==
    /\ AtItem(w, {"folder"})
    /\ LET cb == cur[w][1].cb
           item == Head(cur[w][1].items)
           folderRelPath == cb.pf \o item.name
           adds == OnFolderAdds(cb, item)
       IN  /\ \E elapsed \in BOOLEAN :
                 ReportCurrentFile(w, elapsed, DisplayPath(cb.key.folderPath, folderRelPath))
           /\ buf' = IF adds
                     THEN [buf EXCEPT ![cb.key] = AddSubFolder(@, folderRelPath, item.followed)]
                     ELSE buf
           /\ itemsScanned' = IF adds /\ OnFolderCounts(cb, item)
                              THEN itemsScanned + 1 ELSE itemsScanned
           /\ cur' = [cur EXCEPT ![w] = NextCur(@)]
           /\ IF adds /\ RecursionLimit(cb)
              THEN \* tryReportingItemError: the action throws, reportItemError is called
                   /\ ctx' = [ctx EXCEPT ![w] =
                                 Some([kind |-> "recursion", cb |-> cb, itemName |-> item.name,
                                       msg |-> ErrorMsg("Endless recursion.", cb, folderRelPath),
                                       retry |-> 0])]
                   /\ wpc' = [wpc EXCEPT ![w] = "err"]
                   /\ todo' = todo
              ELSE /\ todo' = IF adds
                              THEN [todo EXCEPT ![w] =
                                       Append(@, [cb |-> ChildCallback(cb, item), retry |-> 0])]
                              ELSE todo
                   /\ UNCHANGED <<ctx, wpc>>
    /\ UNCHANGED <<inputVars, perDeviceFolders, worker, mainpc, requestVars, activeThreadIdxs,
                   notifyingThreadIdx, interrupted, observerVars>>

\* DirCallback::onSymlink for the next item of the current directory; on
\* LINK_FOLLOW the traversal resolves the link and reports its target under
\* the name of the link
OnSymlink(w) ==
    /\ AtItem(w, {"symlink"})
    /\ LET cb == cur[w][1].cb
           item == Head(cur[w][1].items)
           linkRelPath == cb.pf \o item.name
           r == OnSymlinkResult(cb, item)
       IN  /\ \E elapsed \in BOOLEAN :
                 ReportCurrentFile(w, elapsed, DisplayPath(cb.key.folderPath, linkRelPath))
           /\ buf' = IF r.add THEN [buf EXCEPT ![cb.key] = AddSubLink(@, linkRelPath)] ELSE buf
           /\ itemsScanned' = IF r.add THEN itemsScanned + 1 ELSE itemsScanned
           /\ cur' = [cur EXCEPT ![w] =
                         IF r.ret = "LINK_FOLLOW"
                         THEN [@ EXCEPT ![1].items[1] =
                                  [item EXCEPT !.type = item.target, !.followed = TRUE]]
                         ELSE NextCur(@)]
    /\ UNCHANGED <<inputVars, perDeviceFolders, worker, mainpc, requestVars, activeThreadIdxs,
                   notifyingThreadIdx, wpc, interrupted, todo, ctx, observerVars>>

\* ----------------------------------------------- traversal primitive (contract)
\* AFS::traverseFolderParallel: enumerate the next directory of the workload
TravOpenDir(w) ==
    /\ wpc[w] = "trav"
    /\ ~interrupted[w]
    /\ cur[w] = None
    /\ todo[w] # << >>
    /\ LET cb == Head(todo[w]).cb
           items == Listing(cb.key.folderPath, BeforeLast(cb.pf))
       IN  cur' = [cur EXCEPT ![w] =
                      IF items = << >> THEN None
                      ELSE Some([cb |-> cb, items |-> items, retry |-> 0])]
    /\ todo' = [todo EXCEPT ![w] = Tail(@)]
    /\ UNCHANGED <<inputVars, mainVars, requestVars, statusVars, wpc, interrupted, ctx,
                   observerVars>>

\* enumerating the next directory fails: its callback's reportDirError is called
TravDirFail(w) ==
    /\ wpc[w] = "trav"
    /\ ~interrupted[w]
    /\ cur[w] = None
    /\ todo[w] # << >>
    /\ LET cb == Head(todo[w]).cb
       IN  /\ FlakyDir(cb.key.folderPath, BeforeLast(cb.pf))
           /\ ctx' = [ctx EXCEPT ![w] =
                         Some([kind |-> "dir", cb |-> cb, itemName |-> << >>,
                               msg |-> ErrorMsg("Cannot open directory.", cb, BeforeLast(cb.pf)),
                               retry |-> Head(todo[w]).retry])]
    /\ wpc' = [wpc EXCEPT ![w] = "err"]
    /\ UNCHANGED <<inputVars, mainVars, requestVars, statusVars, interrupted, todo, cur,
                   observerVars>>

\* probing the next item (or resolving a followed link) fails: reportItemError
\* is called on the callback of the directory
TravItemFail(w) ==
    /\ AtItem(w, {"file", "folder", "symlink", "broken"})
    /\ LET cb == cur[w][1].cb
           item == Head(cur[w][1].items)
       IN  /\ item.flaky \/ item.type = "broken"
           /\ ctx' = [ctx EXCEPT ![w] =
                         Some([kind |-> "item", cb |-> cb, itemName |-> item.name,
                               msg |-> ErrorMsg("Cannot read file attributes.", cb,
                                                cb.pf \o item.name),
                               retry |-> cur[w][1].retry])]
    /\ wpc' = [wpc EXCEPT ![w] = "err"]
    /\ UNCHANGED <<inputVars, mainVars, requestVars, statusVars, interrupted, todo, cur,
                   observerVars>>

\* traverseFolderParallel returns: the scope guard of the worker body runs
TravDone(w) ==
    /\ wpc[w] = "trav"
    /\ cur[w] = None
    /\ todo[w] = << >>
    /\ wpc' = [wpc EXCEPT ![w] = "exit"]
    /\ UNCHANGED <<inputVars, mainVars, requestVars, statusVars, interrupted, todo, cur, ctx,
                   observerVars>>

\* fault: the caller goes on after a wake-up without a response
HaveResponse_Spurious == TRUE

\* the predicate of the second interruptibleWait of AsyncCallback::reportError
HaveResponse == errorResponse # NoValue

\* fault: only the request is cleared
SlotsAfterResponse_KeepResponse == [request |-> None, response |-> errorResponse]

\* AsyncCallback::reportError: "errorRequest_ = NoValue(); errorResponse_ = NoValue();"
SlotsAfterResponse == [request |-> None, response |-> NoValue]

\* AsyncCallback::reportError from the second interruptibleWait on, and the
\* reportDirError / reportItemError that called it
ReportErrorResponse(w) ==
    /\ wpc[w] = "waitResponse"
    /\ ~interrupted[w]
    /\ lockRequest = NoValue
    /\ HaveResponse
    /\ errorRequest' = SlotsAfterResponse.request
    /\ errorResponse' = SlotsAfterResponse.response
    /\ inFlight' = inFlight \ {w}
    /\ LET rv == errorResponse
           c == ctx[w][1]
       IN  CASE c.kind = "dir" ->
                 /\ buf' = [buf EXCEPT ![c.cb.key] = ReportDirError(@, c.cb, c.msg, rv)]
                 /\ todo' = [todo EXCEPT ![w] =
                                IF rv = "CONTINUE" THEN Tail(@)
                                ELSE [@ EXCEPT ![1].retry = c.retry + 1]]
                 /\ ctx' = [ctx EXCEPT ![w] = None]
                 /\ wpc' = [wpc EXCEPT ![w] = "trav"]
                 /\ cur' = cur
            [] c.kind = "item" ->
                 /\ buf' = [buf EXCEPT ![c.cb.key] =
                               ReportItemError(@, c.cb, c.msg, c.itemName, rv)]
                 /\ cur' = [cur EXCEPT ![w] =
                               IF rv = "CONTINUE" THEN NextCur(@)
                               ELSE [@ EXCEPT ![1].retry = c.retry + 1]]
                 /\ ctx' = [ctx EXCEPT ![w] = None]
                 /\ wpc' = [wpc EXCEPT ![w] = "trav"]
                 /\ todo' = todo
            [] c.kind = "recursion" ->
                 /\ buf' = [buf EXCEPT ![c.cb.key] =
                               ReportItemError(@, c.cb, c.msg, c.itemName, rv)]
                 /\ ctx' = [ctx EXCEPT ![w] =
                               IF rv = "CONTINUE" THEN None
                               ELSE Some([c EXCEPT !.retry = c.retry + 1])]
                 /\ wpc' = [wpc EXCEPT ![w] = IF rv = "CONTINUE" THEN "trav" ELSE "err"]
                 /\ UNCHANGED <<todo, cur>>
    /\ UNCHANGED <<inputVars, perDeviceFolders, worker, mainpc, threadsToFinish, lockRequest,
                   statusVars, interrupted, statusCalls, lastStatus, lastErr,
                   annotated, handlerCalls>>

\* ------------------------------------------------------------ specifications
MainStep ==
    \/ FillBufferStart
    \/ SpawnWorker
    \/ WaitTimeout
    \/ ReportStatus
    \/ EnterErrorHandler
    \/ ErrorHandlerReturn
    \/ ErrorHandlerThrows
    \/ WaitDone
    \/ FinalStatus
    \/ ScopeFail
    \/ ScopeExit

WorkerStep(w) ==
    \/ NotifyWorkBegin(w)
    \/ BaseDirCallback(w)
    \/ TravOpenDir(w)
    \/ TravDirFail(w)
    \/ TravItemFail(w)
    \/ OnFile(w)
    \/ OnFolder(w)
    \/ OnSymlink(w)
    \/ TravDone(w)
    \/ ReportErrorRequest(w)
    \/ ReportErrorResponse(w)
    \/ ThreadInterruption(w)
    \/ NotifyWorkEndStatus(w)
    \/ NotifyWorkEndRequest(w)

Next == MainStep \/ \E w \in WorkerIds : WorkerStep(w)

Spec == Init /\ [][Next]_vars

\* ------------------------------------------- the scan of one base folder alone
\* The relative path of the folder n levels below the "chain" base
ChainPath(n) == [i \in 1..(2 * n - 1) |-> IF i % 2 = 1 THEN "d" ELSE SEP]

\* The scan of the "chain" base after n descents (n times: the directory of the
\* callback is enumerated, onFolder is called for its folder d and returns the
\* child callback): the DirectoryValue, the callback returned last, the count
Descend(n) ==
    [dv |-> [EmptyDirectoryValue EXCEPT
                !.folderCont = [p \in {ChainPath(k) : k \in 1..n} |->
                                   [type |-> "folder", followed |-> FALSE]]],
     cb |-> [key |-> KeyChain, pf |-> [i \in 1..(2 * n) |-> IF i % 2 = 1 THEN "d" ELSE SEP],
             level |-> n],
     counted |-> n]

\* one worker scans the "chain" base and has descended DeepStart levels; the
\* foreground waits in waitUntilDone and no status was delivered yet
InitDeep ==
    /\ foldersToRead = {KeyChain}
    /\ deviceParallelOps = EmptyMap
    /\ buf = (KeyChain :> Descend(DeepStart).dv)
    /\ perDeviceFolders = (<<"dev1">> :> {KeyChain})
    /\ worker = << [rootPath |-> <<"dev1">>, workload |-> {KeyChain}, parallelOps |-> 1] >>
    /\ mainpc = "waiting"
    /\ errorRequest = None
    /\ errorResponse = NoValue
    /\ threadsToFinish = 1
    /\ lockRequest = NoValue
    /\ currentFile = DisplayPath(KeyChain.folderPath, << >>)
    /\ activeThreadIdxs = (0 :> 1)
    /\ notifyingThreadIdx = 0
    /\ itemsScanned = Descend(DeepStart).counted
    /\ wpc = [w \in WorkerIds |-> IF w = 0 THEN "trav" ELSE "none"]
    /\ interrupted = [w \in WorkerIds |-> FALSE]
    /\ todo = [w \in WorkerIds |->
                  IF w = 0 THEN << [cb |-> Descend(DeepStart).cb, retry |-> 0] >> ELSE << >>]
    /\ cur = [w \in WorkerIds |-> None]
    /\ ctx = [w \in WorkerIds |-> None]
    /\ statusCalls = 0
    /\ lastStatus = None
    /\ lastErr = None
    /\ inFlight = {}
    /\ annotated = FALSE
    /\ handlerCalls = 0

InitTrav ==
    \/ /\ foldersToRead \in {{k} : k \in TravKeys}
       /\ deviceParallelOps = EmptyMap
       /\ buf = EmptyMap
       /\ InitCall
    \/ InitDeep

TravSpec == InitTrav /\ [][Next]_vars

\* ------------------------------------------------------------------ properties
Spawned == {w \in WorkerIds : w < Len(worker)}

RootOf(key) == GetPathComponents(key.folderPath).rootPath

FinalPcs == {"joinOk", "failing", "joinFail", "returned", "thrown"}

\* C1: at most one reportError round trip is in flight: while a caller has its
\* request installed and has not cleared the slots, no other caller installs
\* one, the slot holds that caller's request, and the observer's error handler
\* runs only for a request whose response slot is still empty.
C1_ErrorSerialization ==
    /\ Cardinality(inFlight) <= 1
    /\ \A w \in WorkerIds : wpc[w] = "waitResponse" =>
          /\ inFlight = {w}
          /\ errorRequest = Some([msg |-> ctx[w][1].msg, retryNumber |-> ctx[w][1].retry])
    /\ mainpc = "inHandler" =>
          /\ errorResponse = NoValue
          /\ errorRequest # None
          /\ lastErr = Some([msg |-> errorRequest[1].msg,
                             retryNumber |-> errorRequest[1].retryNumber,
                             decision |-> NoValue])

\* one caller's request is being handled while another caller waits to install its own
C1_Witness ==
    /\ mainpc = "inHandler"
    /\ \E w1, w2 \in WorkerIds :
          w1 # w2 /\ wpc[w1] = "waitResponse" /\ wpc[w2] = "err" /\ inFlight = {w1}

\* C2: notifyingThreadIdx_ is the smallest active worker index, or 0 when no
\* worker is active; mayReportCurrentFile can be true for at most one worker
\* index, and an active worker it is true for is the lowest-indexed active one.
C2_ProgressSerialization ==
    /\ notifyingThreadIdx =
          IF DOMAIN activeThreadIdxs = {} THEN 0 ELSE Min(DOMAIN activeThreadIdxs)
    /\ Cardinality({w \in WorkerIds : MayReportCurrentFile(w, TRUE)}) <= 1
    /\ \A w \in DOMAIN activeThreadIdxs :
          MayReportCurrentFile(w, TRUE) => \A v \in DOMAIN activeThreadIdxs : w <= v

\* worker 1 is the only active worker, after worker 0 has ended, and may report
C2_Witness ==
    /\ DOMAIN activeThreadIdxs = {1}
    /\ wpc[0] = "ended"
    /\ wpc[1] = "trav"
    /\ MayReportCurrentFile(1, TRUE)

\* C4: on normal return the keys of buf are exactly foldersToRead, each with
\* a value built by this call, threadsToFinish_ is 0 and every worker has
\* ended and been joined.
C4_OutputShape ==
    mainpc = "returned" =>
        /\ DOMAIN buf = foldersToRead
        /\ \A k \in DOMAIN buf :
              /\ <<"old">> \notin DOMAIN buf[k].folderCont
              /\ <<"gone">> \notin DOMAIN buf[k].failedItemReads
        /\ threadsToFinish = 0
        /\ activeThreadIdxs = EmptyMap
        /\ \A w \in Spawned : wpc[w] = "ended"

\* a normal return with two folders read, one of them on a failed-and-skipped path
C4_Witness ==
    /\ mainpc = "returned"
    /\ Cardinality(foldersToRead) = 2
    /\ KeyA \in foldersToRead
    /\ \E k \in DOMAIN buf : buf[k].failedItemReads # EmptyMap

\* C5 as stated: with foldersToRead empty, buf is empty on return and the
\* observer receives no reportStatus call and no reportError call.
C5_Original ==
    foldersToRead = {} =>
        /\ statusCalls = 0
        /\ lastErr = None
        /\ mainpc = "returned" => buf = EmptyMap

\* C5: with foldersToRead empty, buf is empty on return, the observer receives
\* no reportError call and exactly one reportStatus call, the final status
\* update of waitUntilDone (no thread count, empty path, zero items).
C5_EmptyInput ==
    foldersToRead = {} =>
        /\ lastErr = None
        /\ worker = << >>
        /\ statusCalls <= 1
        /\ statusCalls = 1 <=> mainpc \in FinalPcs
        /\ statusCalls = 1 =>
              lastStatus = Some([text |-> [threads |-> 0, filePath |-> << >>],
                                 itemsScanned |-> 0])
        /\ mainpc = "returned" => buf = EmptyMap

\* an empty call that started with a non-empty buffer has returned
C5_Witness ==
    /\ foldersToRead = {}
    /\ mainpc = "returned"
    /\ statusCalls = 1

\* C9: the buckets of perDeviceFolders are disjoint, non-empty, cover
\* foldersToRead, and hold each key under its own root device; once spawning
\* is over there is one worker per bucket and every key is in the workload of
\* exactly one worker.
C9_PartitionCompleteness ==
    mainpc # "start" =>
        /\ UNION {perDeviceFolders[r] : r \in DOMAIN perDeviceFolders} = foldersToRead
        /\ DOMAIN perDeviceFolders = {RootOf(k) : k \in foldersToRead}
        /\ \A r \in DOMAIN perDeviceFolders :
              \A k \in perDeviceFolders[r] : RootOf(k) = r
        /\ \A r1, r2 \in DOMAIN perDeviceFolders :
              r1 # r2 => perDeviceFolders[r1] \cap perDeviceFolders[r2] = {}
        /\ Len(worker) <= Cardinality(DOMAIN perDeviceFolders)
        /\ \A i \in 1..Len(worker) : worker[i].workload = perDeviceFolders[worker[i].rootPath]
        /\ \A i, j \in 1..Len(worker) : i # j => worker[i].rootPath # worker[j].rootPath
        /\ mainpc # "spawn" =>
              /\ Len(worker) = Cardinality({RootOf(k) : k \in foldersToRead})
              /\ \A k \in foldersToRead :
                    Cardinality({i \in 1..Len(worker) : k \in worker[i].workload}) = 1

\* two keys of one device are in the workload of the single worker spawned
C9_Witness ==
    /\ mainpc = "waiting"
    /\ Len(worker) = 1
    /\ Cardinality(worker[1].workload) = 2

\* C10: the response slot is non-empty only while the request slot is
\* non-empty, and it holds the decision the observer gave for that request.
C10_MailboxInvariant ==
    errorResponse # NoValue =>
        /\ errorRequest # None
        /\ lastErr = Some([msg |-> errorRequest[1].msg,
                           retryNumber |-> errorRequest[1].retryNumber,
                           decision |-> errorResponse])

\* a response waits to be consumed while another worker waits to install a request
C10_Witness ==
    /\ errorResponse = "RETRY"
    /\ \E w1, w2 \in WorkerIds :
          w1 # w2 /\ wpc[w1] = "waitResponse" /\ wpc[w2] = "err"

\* an entry of the tree lies under the directory of relative path p
HasChildUnder(dv, p) ==
    \E q \in DOMAIN dv.folderCont :
        IF p = << >> THEN TRUE ELSE IsPrefix(p \o <<SEP>>, q)

\* C6 as stated: no relative path is both the path of an entry of the folder
\* tree and a key of failedItemReads, the recursion-depth error included.
C6_Original ==
    \A k \in DOMAIN buf :
        DOMAIN buf[k].folderCont \cap DOMAIN buf[k].failedItemReads = {}

\* C6: a relative path is both the path of an entry of the folder tree and a
\* key of failedItemReads only for a sub-folder node that onFolder created at
\* a level above the recursion limit before reporting "Endless recursion.";
\* no file, symlink or shallower sub-folder is in both.
C6_ErrorExclusivity ==
    \A k \in DOMAIN buf :
        \A p \in DOMAIN buf[k].folderCont \cap DOMAIN buf[k].failedItemReads :
            /\ buf[k].folderCont[p].type = "folder"
            /\ buf[k].failedItemReads[p].text = "Endless recursion."
            /\ Depth(p) > MaxLevel + 1

\* the endless-recursion error was answered CONTINUE, next to an item that
\* failed and was skipped in another run of the same kind of tree
C6_Witness ==
    \E k \in DOMAIN buf :
        /\ DOMAIN buf[k].folderCont \cap DOMAIN buf[k].failedItemReads # {}
        /\ wpc[0] = "ended"

\* C7 as stated: a key of failedFolderReads has no node in the folder tree
\* and no child under it.
C7_Original ==
    \A k \in DOMAIN buf :
        \A p \in DOMAIN buf[k].failedFolderReads :
            /\ p \notin DOMAIN buf[k].folderCont
            /\ ~HasChildUnder(buf[k], p)

\* C7: a key of failedFolderReads is the relative path of the directory whose
\* enumeration failed: the empty path for the base folder, else the path of
\* the sub-folder node onFolder created for it, which stays in the tree; no
\* entry of the tree lies under it.
C7_FailedFolderReads ==
    \A k \in DOMAIN buf :
        \A p \in DOMAIN buf[k].failedFolderReads :
            /\ p # << >> =>
                  /\ p \in DOMAIN buf[k].folderCont
                  /\ buf[k].folderCont[p].type = "folder"
            /\ ~HasChildUnder(buf[k], p)

\* a sub-folder failed to enumerate and was skipped, its siblings were recorded
C7_Witness ==
    \E k \in DOMAIN buf :
        /\ <<"d">> \in DOMAIN buf[k].failedFolderReads
        /\ <<"l">> \in DOMAIN buf[k].folderCont
        /\ wpc[0] = "ended"

\* C8: every file and symlink record of the output has a relative path that
\* passFileFilter accepts, and every sub-folder node one for which
\* passDirFilter returned true or set childItemMightMatch, in every symlink
\* mode and under followed symlinks.
C8_FilterSoundness ==
    \A k \in DOMAIN buf :
        \A p \in DOMAIN buf[k].folderCont :
            IF buf[k].folderCont[p].type = "folder"
            THEN LET r == PassDirFilter(k.filter, p)
                 IN  r.pass \/ r.childItemMightMatch
            ELSE PassFileFilter(k.filter, p)

\* under a filter that rejects items: a folder kept only for what it may
\* contain, a file under it, and a followed symlink recorded as a folder
C8_Witness ==
    \E k \in DOMAIN buf :
        /\ k.filter = FilterInclDeep
        /\ <<"d">> \in DOMAIN buf[k].folderCont
        /\ ~PassDirFilter(k.filter, <<"d">>).pass
        /\ <<"d", SEP, "f">> \in DOMAIN buf[k].folderCont
        /\ <<"l">> \in DOMAIN buf[k].folderCont
        /\ buf[k].folderCont[<<"l">>].followed
        /\ <<"f">> \notin DOMAIN buf[k].folderCont
        /\ wpc[0] = "ended"

\* a call with an empty buffer and no parallelism configured
InitFair ==
    /\ Init
    /\ buf = EmptyMap
    /\ deviceParallelOps = EmptyMap

\* the foreground thread and every worker thread keep being scheduled
FairSpec ==
    /\ InitFair
    /\ [][Next]_vars
    /\ WF_vars(MainStep)
    /\ \A w \in WorkerIds : WF_vars(WorkerStep(w))

\* C3: once the observer has raised a failure from reportStatus or
\* reportError, fillBuffer eventually exits by propagating it, and when it
\* does every spawned worker has been interrupted and has ended and
\* threadsToFinish_ is 0.
C3_CancellationSafety ==
    /\ (mainpc = "failing") ~> (mainpc = "thrown")
    /\ [](mainpc = "thrown" =>
             /\ threadsToFinish = 0
             /\ activeThreadIdxs = EmptyMap
             /\ \A w \in Spawned : interrupted[w] /\ wpc[w] = "ended")

\* the failure was propagated after a worker was interrupted while blocked
\* in reportError with its request installed, and another before installing
C3_Witness ==
    /\ mainpc = "thrown"
    /\ Len(worker) = 2
    /\ errorRequest # None
    /\ \E w \in Spawned : w \notin inFlight /\ ctx[w] # None

\* a worker thread was spawned and has not ended
Running == {w \in Spawned : wpc[w] # "ended"}

\* the keys held by the workloads of the workers spawned so far
SpawnedKeys == UNION {worker[i].workload : i \in 1..Len(worker)}

\* C11 as stated: once any worker is running, no insertion into or removal
\* from buf happens until all workers have ended.
C11_Original ==
    [][Running # {} => DOMAIN buf' = DOMAIN buf]_vars

\* C11: the DirectoryValue of a key is inserted into buf before the worker
\* whose workload holds it is spawned, and the entries of the later buckets
\* are inserted while the workers spawned earlier already run; while a worker
\* runs no entry is removed from buf, no entry of a spawned workload is
\* inserted, and after the last spawn buf gets no new key.
C11_BufInsertions ==
    [][/\ SpawnedKeys' \subseteq DOMAIN buf'
       /\ Running # {} =>
             /\ DOMAIN buf \subseteq DOMAIN buf'
             /\ (DOMAIN buf' \ DOMAIN buf) \cap SpawnedKeys = {}
             /\ mainpc # "spawn" => DOMAIN buf' = DOMAIN buf]_vars

\* the first worker traverses while the entries of the second bucket are not yet in buf
C11_Witness ==
    /\ mainpc = "spawn"
    /\ wpc[0] = "trav"
    /\ DOMAIN buf # foldersToRead

\* the members guarded by lockRequest_ and those guarded by lockCurrentStatus_
RequestGuarded == <<errorRequest, errorResponse, threadsToFinish>>

StatusGuarded == <<currentFile, activeThreadIdxs>>

\* C12: no thread holds lockRequest_ and lockCurrentStatus_ together: the
\* foreground renders a status (getCurrentStatus takes lockCurrentStatus_)
\* only when it does not hold lockRequest_, and no critical section of a
\* worker touches both what lockCurrentStatus_ guards and what lockRequest_
\* guards; notifyWorkEnd leaves the first before it enters the second.
C12_LockDiscipline ==
    [][/\ statusCalls' # statusCalls => lockRequest # "main"
       /\ StatusGuarded' # StatusGuarded =>
             RequestGuarded' = RequestGuarded /\ lockRequest' = lockRequest
       /\ \A w \in WorkerIds :
             (wpc[w] = "exit" /\ wpc'[w] # "exit") =>
                 wpc'[w] = "exitRequest" /\ threadsToFinish' = threadsToFinish]_vars

\* the foreground holds lockRequest_ in the error handler, after an earlier
\* status update, while a worker inside notifyWorkEnd has left the status
\* lock and waits for lockRequest_
C12_Witness ==
    /\ mainpc = "inHandler"
    /\ lockRequest = "main"
    /\ statusCalls = 1
    /\ \E w \in WorkerIds : wpc[w] = "exitRequest" /\ w \notin DOMAIN activeThreadIdxs

\* C13: under fair scheduling, a run in which the observer never fails
\* returns from fillBuffer, and when it returns no reportError call is still
\* blocked (every request installed was answered and cleared by its caller)
\* and every worker spawned has ended through notifyWorkEnd without being
\* interrupted.
C13_Termination ==
    /\ <>(mainpc \in {"failing", "returned"})
    /\ [](mainpc = "returned" =>
             /\ \A w \in Spawned : wpc[w] = "ended" /\ ~interrupted[w] /\ ctx[w] = None
             /\ Len(worker) = Cardinality(DOMAIN perDeviceFolders)
             /\ inFlight = {}
             /\ errorRequest = None /\ errorResponse = NoValue
             /\ activeThreadIdxs = EmptyMap
             /\ threadsToFinish = 0)

\* the call returned after two workers ran and an error was retried and then continued
C13_Witness ==
    /\ mainpc = "returned"
    /\ Len(worker) = 2
    /\ lastErr # None
    /\ lastErr[1].retryNumber = 1
    /\ lastErr[1].decision = "CONTINUE"

\* the sum of the declared parallelism of the active workers
ActiveOps ==
    LET Sum[S \in SUBSET WorkerIds] ==
            IF S = {} THEN 0
            ELSE LET x == CHOOSE y \in S : TRUE IN worker[x + 1].parallelOps + Sum[S \ {x}]
    IN  Sum[DOMAIN activeThreadIdxs]

\* C14 as stated: a run with bases on two distinct root devices that
\* completes normally delivered at least one status that names a thread count
\* of 2 or more.
C14_Original ==
    (mainpc = "returned" /\ Cardinality(DOMAIN perDeviceFolders) = 2) => annotated

\* C14: every status delivered names the sum of the declared parallelism of
\* the workers active when it is rendered if that sum is at least 2, and none
\* otherwise; with both workers of a two-device run active the sum is at
\* least 2, each worker's parallelism being at least 1. The final status of a
\* normal return is rendered with no active worker and names no thread count.
C14_ParallelismAnnotation ==
    [][statusCalls' # statusCalls =>
          LET shown == lastStatus'[1].text.threads
          IN  /\ shown = IF ActiveOps >= 2 THEN ActiveOps ELSE 0
              /\ Cardinality(DOMAIN activeThreadIdxs) = 2 => shown >= 2
              /\ (mainpc = "final") => shown = 0
              /\ annotated' = (annotated \/ shown >= 2)]_vars

\* a two-device run returned normally after a status that named a thread count
C14_Witness ==
    /\ mainpc = "returned"
    /\ Cardinality(DOMAIN perDeviceFolders) = 2
    /\ annotated
    /\ deviceParallelOps = EmptyMap

\* C15: when reportError returns to its caller, the observer's error handler
\* was called exactly once for the request that caller installed, with that
\* message and retry number, and the caller is given the decision the
\* observer returned (it records the failure exactly when the decision is
\* CONTINUE); the caller empties both slots, so no other caller gets
\* that decision; a response is stored only by the handler of a request that
\* has none yet.
C15_DecisionDelivery ==
    [][/\ \A w \in WorkerIds :
             (wpc[w] = "waitResponse" /\ wpc'[w] \in {"trav", "err"}) =>
                 /\ inFlight = {w}
                 /\ handlerCalls = 1
                 /\ errorResponse \in {"CONTINUE", "RETRY"}
                 /\ lastErr = Some([msg |-> ctx[w][1].msg, retryNumber |-> ctx[w][1].retry,
                                    decision |-> errorResponse])
                 /\ errorRequest' = None /\ errorResponse' = NoValue
                 /\ (errorResponse = "CONTINUE") <=> (buf' # buf)
       /\ (errorResponse' # errorResponse /\ errorResponse' # NoValue) =>
             /\ mainpc = "inHandler"
             /\ handlerCalls = 1
             /\ errorResponse = NoValue
             /\ errorRequest' = errorRequest
             /\ lastErr' = Some([msg |-> errorRequest[1].msg,
                                 retryNumber |-> errorRequest[1].retryNumber,
                                 decision |-> errorResponse'])
       /\ handlerCalls' <= 1]_vars

\* a worker got RETRY for its first request and waits for the answer to the
\* second, while the other worker waits to install its own
C15_Witness ==
    /\ mainpc = "inHandler"
    /\ handlerCalls = 1
    /\ \E w1, w2 \in WorkerIds :
          /\ w1 # w2
          /\ wpc[w1] = "waitResponse" /\ ctx[w1][1].retry = 1
          /\ wpc[w2] = "err"

\* the callbacks that exist: of the directories still to enumerate, of the
\* directory being enumerated and of the error being reported
Callbacks(w) ==
    {todo[w][i].cb : i \in 1..Len(todo[w])}
        \cup (IF cur[w] = None THEN {} ELSE {cur[w][1].cb})
        \cup (IF ctx[w] = None THEN {} ELSE {ctx[w][1].cb})

\* C16: no callback has a level above 101: onFolder of a callback of level
\* above 100 returns no child whatever the observer answers; the
\* endless-recursion error is reported by callbacks of level 101 only, for a
\* sub-folder whose node is already in the tree, and nothing below that
\* sub-folder is recorded.
C16_RecursionBound ==
    /\ \A w \in WorkerIds :
          /\ \A cb \in Callbacks(w) : cb.level <= MaxLevel + 1
          /\ (ctx[w] # None /\ ctx[w][1].kind = "recursion") =>
                LET c == ctx[w][1]
                IN  /\ c.cb.level = MaxLevel + 1
                    /\ c.msg.text = "Endless recursion."
                    /\ (c.cb.pf \o c.itemName) \in DOMAIN buf[c.cb.key].folderCont
                    /\ buf[c.cb.key].folderCont[c.cb.pf \o c.itemName].type = "folder"
    /\ \A k \in DOMAIN buf :
          /\ \A p \in DOMAIN buf[k].folderCont : Depth(p) <= MaxLevel + 2
          /\ \A p \in DOMAIN buf[k].failedItemReads :
                buf[k].failedItemReads[p].text = "Endless recursion." =>
                    /\ Depth(p) = MaxLevel + 2
                    /\ p \in DOMAIN buf[k].folderCont

\* the endless-recursion error is reported a second time after RETRY, by a
\* callback of level 101 that has no child
C16_Witness ==
    /\ wpc[0] = "waitResponse"
    /\ ctx[0][1].kind = "recursion"
    /\ ctx[0][1].retry = 1
    /\ ctx[0][1].cb.level = MaxLevel + 1
    /\ todo[0] = << >>

\* the two failure maps of every DirectoryValue
FailureMaps(b) == [k \in DOMAIN b |-> <<b[k].failedFolderReads, b[k].failedItemReads>>]

\* C17: reportDirError and reportItemError change the failure maps only on
\* CONTINUE, and then write one entry holding the message just reported:
\* failedFolderReads under the callback's prefix without its final separator,
\* failedItemReads under prefix + itemName; on RETRY and when the wait is
\* interrupted the maps stay as they are.
C17_FailureMaps ==
    [][/\ \A w \in WorkerIds :
             (wpc[w] = "waitResponse" /\ wpc'[w] # "waitResponse") =>
                 LET c == ctx[w][1]
                     dv == buf[c.cb.key]
                     pf == c.cb.pf
                 IN  IF wpc'[w] \in {"trav", "err"} /\ errorResponse = "CONTINUE"
                     THEN /\ buf' = [buf EXCEPT ![c.cb.key] = buf'[c.cb.key]]
                          /\ buf'[c.cb.key].folderCont = dv.folderCont
                          /\ IF c.kind = "dir"
                             THEN /\ buf'[c.cb.key].failedItemReads = dv.failedItemReads
                                  /\ buf'[c.cb.key].failedFolderReads =
                                        [p \in DOMAIN dv.failedFolderReads \cup
                                               {SubSeq(pf, 1, Len(pf) - 1)} |->
                                            IF p = SubSeq(pf, 1, Len(pf) - 1) THEN c.msg
                                            ELSE dv.failedFolderReads[p]]
                             ELSE /\ buf'[c.cb.key].failedFolderReads = dv.failedFolderReads
                                  /\ buf'[c.cb.key].failedItemReads =
                                        [p \in DOMAIN dv.failedItemReads \cup
                                               {pf \o c.itemName} |->
                                            IF p = pf \o c.itemName THEN c.msg
                                            ELSE dv.failedItemReads[p]]
                     ELSE buf' = buf
       /\ (mainpc # "start" /\ \E k \in DOMAIN buf : FailureMaps(buf')[k] # FailureMaps(buf)[k]) =>
             \E w \in WorkerIds :
                 /\ wpc[w] = "waitResponse" /\ wpc'[w] = "trav"
                 /\ errorResponse = "CONTINUE"]_vars

\* the enumeration of a sub-folder failed, was retried and then succeeded:
\* its content is recorded and failedFolderReads has no entry for it
C17_Witness ==
    /\ wpc[0] = "ended"
    /\ \E k \in DOMAIN buf :
          /\ <<"d", SEP, "f">> \in DOMAIN buf[k].folderCont
          /\ buf[k].failedFolderReads = EmptyMap
          /\ lastErr # None
          /\ lastErr[1].msg.path = DisplayPath(k.folderPath, <<"d">>)
          /\ lastErr[1].decision = "RETRY"

\* C18: waitUntilDone returns normally right after a reportStatus call made
\* with threadsToFinish_ at 0 and lockRequest_ released, which carries the
\* value of itemsScanned_; after that call the observer is not called again
\* and itemsScanned_ does not change, every worker having ended.
C18_FinalStatus ==
    [][/\ (mainpc # "joinOk" /\ mainpc' = "joinOk") =>
             /\ mainpc = "final"
             /\ statusCalls' = statusCalls + 1
             /\ threadsToFinish = 0
             /\ lockRequest = NoValue
             /\ \A w \in Spawned : wpc[w] = "ended"
             /\ lastStatus' = Some([text |-> [threads |-> 0, filePath |-> currentFile],
                                    itemsScanned |-> itemsScanned])
       /\ mainpc \in {"joinOk", "returned"} =>
             /\ mainpc' \in {"joinOk", "returned"}
             /\ UNCHANGED <<itemsScanned, statusCalls, lastStatus, lastErr, handlerCalls>>
             /\ lastStatus[1].itemsScanned = itemsScanned]_vars

\* a normal return of a two-worker run after an intermediate status, an error
\* round trip and a counted item
C18_Witness ==
    /\ mainpc = "returned"
    /\ statusCalls = 2
    /\ lastErr # None
    /\ Len(worker) = 2
    /\ lastStatus[1].itemsScanned >= 1

\* an error round trip is pending: a request is installed and not yet cleared
ErrorPending == errorRequest # None

\* C19: while an error round trip is pending, the error handler running or
\* not, every other worker that is traversing can take its next step, and it
\* can publish its current file when it is the reporting worker and its
\* interval has elapsed: publishing needs neither lockRequest_ nor the error
\* slots.
C19_ProgressNotBlocked ==
    ErrorPending =>
        \A w \in (DOMAIN activeThreadIdxs) \ inFlight :
            (wpc[w] = "trav" /\ ~interrupted[w]) =>
                /\ ENABLED WorkerStep(w)
                /\ ENABLED ReportCurrentFile(w, TRUE, <<"path">>)
                /\ w = notifyingThreadIdx =>
                      ENABLED (ReportCurrentFile(w, TRUE, <<"path">>) /\ currentFile' = <<"path">>)

\* the error handler runs for worker 1 while worker 0, the reporting worker,
\* is about to handle an item
C19_Witness ==
    /\ mainpc = "inHandler"
    /\ lockRequest = "main"
    /\ inFlight = {1}
    /\ notifyingThreadIdx = 0
    /\ AtItem(0, {"file", "folder", "symlink"})

\* the records of a DirectoryValue that count as scanned items: files,
\* symlinks and the sub-folders that pass the directory filter
CountedRecords(key, dv) ==
    {p \in DOMAIN dv.folderCont :
        \/ dv.folderCont[p].type \in {"file", "symlink"}
        \/ PassDirFilter(key.filter, p).pass}

TotalCounted(b) ==
    LET Sum[S \in SUBSET DOMAIN b] ==
            IF S = {} THEN 0
            ELSE LET k == CHOOSE x \in S : TRUE
                 IN  Cardinality(CountedRecords(k, b[k])) + Sum[S \ {k}]
    IN  Sum[DOMAIN b]

\* C20: at normal completion itemsScanned_ is the number of file records
\* plus symlink records plus sub-folder nodes that passed the directory
\* filter; reserved files, filtered-out files, skipped symlinks and folders
\* kept only for what they may contain are not counted.
C20_ItemsScanned ==
    mainpc = "returned" =>
        /\ itemsScanned = TotalCounted(buf)
        /\ lastStatus[1].itemsScanned = TotalCounted(buf)

\* a scan that followed a symlink returned with a folder kept only for what
\* it may contain: three records, two of them counted
C20_Witness ==
    /\ mainpc = "returned"
    /\ \E k \in DOMAIN buf :
          /\ k.filter = FilterInclDeep
          /\ DOMAIN buf[k].folderCont = {<<"d">>, <<"d", SEP, "f">>, <<"l">>}
          /\ buf[k].folderCont[<<"l">>].followed
    /\ itemsScanned = 2

\* ----------------------------------------------------------------------- C21
\* worker w is in onSymlink for the next item of its current directory
InOnSymlink(w) == AtItem(w, {"symlink"}) /\ cur'[w] # cur[w]

\* the traversal was told LINK_FOLLOW: the same item is reported again as
\* what the link resolves to
ToldFollow(w) ==
    /\ cur'[w] # None
    /\ Len(cur'[w][1].items) = Len(cur[w][1].items)
    /\ Head(cur'[w][1].items).followed

\* C21: onSymlink in EXCLUDE mode records nothing and returns skip; in DIRECT
\* mode it returns skip and adds a symlink record (counting it) exactly when
\* passFileFilter accepts the relative path; in FOLLOW mode it records
\* nothing itself and returns skip exactly when passFileFilter rejects,
\* passDirFilter rejects and mightContainMatches is false, follow otherwise.
C21_SymlinkDispatch ==
    [][\A w \in WorkerIds :
          InOnSymlink(w) =>
              LET cb == cur[w][1].cb
                  linkRelPath == cb.pf \o Head(cur[w][1].items).name
                  mode == cb.key.handleSymlinks
                  passFile == PassFileFilter(cb.key.filter, linkRelPath)
                  dirTest == PassDirFilter(cb.key.filter, linkRelPath)
                  nothingRecorded == buf' = buf /\ itemsScanned' = itemsScanned
                  linkRecorded ==
                      /\ linkRelPath \notin DOMAIN buf[cb.key].folderCont
                      /\ buf' = [buf EXCEPT ![cb.key].folderCont =
                                    MapPut(@, linkRelPath,
                                           [type |-> "symlink", followed |-> FALSE])]
                      /\ itemsScanned' = itemsScanned + 1
              IN  /\ mode = "EXCLUDE" => nothingRecorded /\ ~ToldFollow(w)
                  /\ mode = "DIRECT" =>
                        /\ ~ToldFollow(w)
                        /\ IF passFile THEN linkRecorded ELSE nothingRecorded
                  /\ mode = "FOLLOW" =>
                        /\ nothingRecorded
                        /\ ~ToldFollow(w) <=>
                              (~passFile /\ ~dirTest.pass /\ ~dirTest.childItemMightMatch)
    ]_vars

\* a link was followed although the file filter rejects it, in both ways the
\* directory filter allows: the directory passes, or it may contain matches
C21_Witness ==
    \E w \in WorkerIds :
        /\ cur[w] # None
        /\ cur[w][1].cb.key.handleSymlinks = "FOLLOW"
        /\ cur[w][1].cb.key.filter \in {FilterInclUnder, FilterInclDir}
        /\ Head(cur[w][1].items).followed
        /\ ~PassFileFilter(cur[w][1].cb.key.filter,
                           cur[w][1].cb.pf \o Head(cur[w][1].items).name)

\* ----------------------------------------------------------------------- C22
\* an error request is installed and not answered yet
Unanswered == errorRequest # None /\ errorResponse = NoValue

\* C22: the assertion of waitUntilDone: whenever the foreground sees an
\* unanswered error request, threadsToFinish_ is greater than 0; as long as
\* no worker is interrupted, the worker whose request is unanswered waits for
\* the response and has not gone through notifyWorkEnd.
C22_AssertThreadsToFinish ==
    /\ (mainpc \in {"waiting", "inHandler"} /\ Unanswered) => threadsToFinish > 0
    /\ ((\A w \in WorkerIds : ~interrupted[w]) /\ Unanswered) =>
          /\ threadsToFinish > 0
          /\ \E w \in WorkerIds : inFlight = {w}
          /\ \A w \in inFlight : wpc[w] = "waitResponse"

\* the error handler runs for the request of the last worker still at work:
\* the other worker has finished, threadsToFinish_ is 1
C22_Witness ==
    /\ mainpc = "inHandler"
    /\ Unanswered
    /\ Len(worker) = 2
    /\ threadsToFinish = 1
    /\ \E w \in WorkerIds : wpc[w] = "ended"

\* ----------------------------------------------------------------------- C23
\* the positions of a worker between its notifyWorkBegin and its notifyWorkEnd
BetweenBeginAndEnd == {"init", "trav", "err", "waitResponse", "exit"}

\* C23: in every reachable state, the cancellation path included, there are
\* at most threadsToFinish_ entries in activeThreadIdxs_; every worker index
\* is inserted once, by its notifyWorkBegin, and removed once, by its
\* notifyWorkEnd, before fillBuffer is left; once the channel is set up
\* threadsToFinish_ only decreases, by one and never below 0; and when it is 0
\* activeThreadIdxs_ is empty and notifyingThreadIdx_ is 0.
C23_WorkerBookkeeping ==
    /\ [](/\ Cardinality(DOMAIN activeThreadIdxs) <= threadsToFinish
          /\ threadsToFinish >= 0
          /\ threadsToFinish = 0 => (DOMAIN activeThreadIdxs = {} /\ notifyingThreadIdx = 0)
          /\ \A w \in WorkerIds : w \in DOMAIN activeThreadIdxs <=> wpc[w] \in BetweenBeginAndEnd
          /\ mainpc \in {"returned", "thrown"} => DOMAIN activeThreadIdxs = {})
    /\ [][/\ mainpc # "start" =>
                \/ threadsToFinish' = threadsToFinish
                \/ threadsToFinish > 0 /\ threadsToFinish' = threadsToFinish - 1
          /\ \A w \in WorkerIds :
                /\ (w \notin DOMAIN activeThreadIdxs /\ w \in DOMAIN activeThreadIdxs') =>
                      wpc[w] = "spawned"
                /\ (w \in DOMAIN activeThreadIdxs /\ w \notin DOMAIN activeThreadIdxs') =>
                      wpc[w] = "exit" /\ wpc'[w] = "exitRequest"
                /\ wpc'[w] = "spawned" => wpc[w] \in {"none", "spawned"}
                /\ wpc'[w] = "exit" => wpc[w] \in {"trav", "err", "waitResponse", "exit"}
       ]_vars

\* the cancellation path was taken with two workers, one of them interrupted
\* while it waited for a response, and both went through notifyWorkEnd
C23_Witness ==
    /\ mainpc = "thrown"
    /\ Len(worker) = 2
    /\ inFlight # {}
    /\ \A w \in WorkerIds : interrupted[w] /\ wpc[w] = "ended"
    /\ threadsToFinish = 0
    /\ DOMAIN activeThreadIdxs = {}

=============================================================================
